---- MODULE Spec2Model ----
(***************************************************************************)
(* Chart catalogue of the postgres collector (modules/postgres/charts.go): *)
(* the server-wide charts, the per-database chart templates, and the three *)
(* functions that instantiate, register and retire per-database charts.    *)
(*                                                                         *)
(* Charts and dimensions are reference objects in Go (pointers to Chart   *)
(* and Dim), so the model keeps them in a heap: an address is an index    *)
(* into heap.charts or heap.dims, and a module.Charts value is a sequence  *)
(* of chart addresses.  Strings are TLA+ strings, scanned character by     *)
(* character where the code formats or compares them.                      *)
(***************************************************************************)
EXTENDS Integers, Sequences, FiniteSets, TLC

VARIABLES
    heap,          \* [charts: Seq(chart object), dims: Seq(dim object)]
    dbChartsTmpl,  \* package variable dbChartsTmpl: sequence of chart addresses
    charts,        \* p.Charts(): the collection of the job, chart addresses
    call,          \* the call made by the last step: [op, dbname]
    ret,           \* the charts returned by the last newDatabaseCharts
    warnings,      \* number of p.Warning calls so far
    calls          \* number of newDatabaseCharts calls so far

vars == <<heap, dbChartsTmpl, charts, call, ret, warnings, calls>>

(***************************************************************************)
(* Bounds of the model.                                                    *)
(***************************************************************************)
MaxCalls == 2

\* Database names the calls are made with: the empty name, a name, and a
\* name extending it after an underscore up to the first word of a template
\* suffix ("temp_files").
DbNames == {"", "a", "a_temp"}

\* Database names for the calls of newDatabaseCharts alone.
VerbNames ==
    {"", "a", "a_temp", "a_temp_files", "a_conflicts", "a_b", "_",
     "%s", "100%", "a b", "db_%s_"}

(***************************************************************************)
(* Constants of package agent/module used by the chart declarations.       *)
(***************************************************************************)
modulePriority == 70000
Area == "area"
Stacked == "stacked"
Incremental == "incremental"

prioConnectionsUtilization == modulePriority + 0
prioConnectionsUsage == modulePriority + 1
prioCheckpoints == modulePriority + 2
prioCheckpointTime == modulePriority + 3
prioBGWriterBuffersAllocated == modulePriority + 4
prioBGWriterBuffersWritten == modulePriority + 5
prioBGWriterMaxWrittenClean == modulePriority + 6
prioBGWriterBackedFsync == modulePriority + 7
prioWALWrites == modulePriority + 8
prioWALFiles == modulePriority + 9
prioWALArchive == modulePriority + 10
prioAutovacuumWorkers == modulePriority + 11
prioAutovacuumPercentTowards == modulePriority + 12
prioTXIDWraparoundPercentTowards == modulePriority + 13
prioTXIDWraparoundOldestTXID == modulePriority + 14
prioCatalogRelationCount == modulePriority + 15
prioCatalogRelationSize == modulePriority + 16
prioUptime == modulePriority + 17
prioDBTransactions == modulePriority + 18
prioDBConnectionsUtilization == modulePriority + 19
prioDBConnections == modulePriority + 20
prioDBBufferCache == modulePriority + 21
prioDBReadOperations == modulePriority + 22
prioDBWriteOperations == modulePriority + 23
prioDBConflicts == modulePriority + 24
prioDBConflictsStat == modulePriority + 25
prioDBDeadlocks == modulePriority + 26
prioDBLocksHeld == modulePriority + 27
prioDBLocksAwaited == modulePriority + 28
prioDBTempFiles == modulePriority + 29
prioDBTempFilesData == modulePriority + 30
prioDBSize == modulePriority + 31

serverConnectionsUtilizationChart ==
    [ID |-> "connections_utilization",
     Title |-> "Connections utilization",
     Units |-> "percentage",
     Fam |-> "connections",
     Ctx |-> "postgres.connections_utilization",
     Priority |-> prioConnectionsUtilization,
     Type |-> "",
     Dims |-> <<
        [ID |-> "server_connections_utilization", Name |-> "used", Algo |-> ""] >>]

serverConnectionsUsageChart ==
    [ID |-> "connections_usage",
     Title |-> "Connections usage",
     Units |-> "connections",
     Fam |-> "connections",
     Ctx |-> "postgres.connections_usage",
     Priority |-> prioConnectionsUsage,
     Type |-> Stacked,
     Dims |-> <<
        [ID |-> "server_connections_available", Name |-> "available", Algo |-> ""],
        [ID |-> "server_connections_used", Name |-> "used", Algo |-> ""] >>]

checkpointsChart ==
    [ID |-> "checkpoints",
     Title |-> "Checkpoints",
     Units |-> "checkpoints/s",
     Fam |-> "checkpointer",
     Ctx |-> "postgres.checkpoints",
     Priority |-> prioCheckpoints,
     Type |-> Stacked,
     Dims |-> <<
        [ID |-> "checkpoints_timed", Name |-> "scheduled", Algo |-> Incremental],
        [ID |-> "checkpoints_req", Name |-> "requested", Algo |-> Incremental] >>]

checkpointWriteChart ==
    [ID |-> "checkpoint_time",
     Title |-> "Checkpoint time",
     Units |-> "milliseconds",
     Fam |-> "checkpointer",
     Ctx |-> "postgres.checkpoint_time",
     Priority |-> prioCheckpointTime,
     Type |-> "",
     Dims |-> <<
        [ID |-> "checkpoint_write_time", Name |-> "write", Algo |-> Incremental],
        [ID |-> "checkpoint_sync_time", Name |-> "sync", Algo |-> Incremental] >>]

bgWriterBuffersAllocChart ==
    [ID |-> "bgwriter_buffers_alloc",
     Title |-> "Background writer buffers allocated",
     Units |-> "B/s",
     Fam |-> "background writer",
     Ctx |-> "postgres.bgwriter_buffers_alloc",
     Priority |-> prioBGWriterBuffersAllocated,
     Type |-> "",
     Dims |-> <<
        [ID |-> "buffers_alloc", Name |-> "allocated", Algo |-> Incremental] >>]

bgWriterBuffersWrittenChart ==
    [ID |-> "bgwriter_buffers_written",
     Title |-> "Background writer buffers written",
     Units |-> "B/s",
     Fam |-> "background writer",
     Ctx |-> "postgres.bgwriter_buffers_written",
     Priority |-> prioBGWriterBuffersWritten,
     Type |-> Area,
     Dims |-> <<
        [ID |-> "buffers_checkpoint", Name |-> "checkpoint", Algo |-> Incremental],
        [ID |-> "buffers_backend", Name |-> "backend", Algo |-> Incremental],
        [ID |-> "buffers_clean", Name |-> "clean", Algo |-> Incremental] >>]

bgWriterMaxWrittenCleanChart ==
    [ID |-> "bgwriter_maxwritten_clean",
     Title |-> "Background writer cleaning scan stops",
     Units |-> "events/s",
     Fam |-> "background writer",
     Ctx |-> "postgres.bgwriter_maxwritten_clean",
     Priority |-> prioBGWriterMaxWrittenClean,
     Type |-> "",
     Dims |-> <<
        [ID |-> "maxwritten_clean", Name |-> "maxwritten", Algo |-> Incremental] >>]

bgWriterBuffersBackendFsyncChart ==
    [ID |-> "bgwriter_buffers_backend_fsync",
     Title |-> "Backend fsync",
     Units |-> "operations/s",
     Fam |-> "background writer",
     Ctx |-> "postgres.bgwriter_buffers_backend_fsync",
     Priority |-> prioBGWriterBackedFsync,
     Type |-> "",
     Dims |-> <<
        [ID |-> "buffers_backend_fsync", Name |-> "fsync", Algo |-> Incremental] >>]

walWritesChart ==
    [ID |-> "wal_writes",
     Title |-> "Write-Ahead Log",
     Units |-> "B/s",
     Fam |-> "wal",
     Ctx |-> "postgres.wal_writes",
     Priority |-> prioWALWrites,
     Type |-> "",
     Dims |-> <<
        [ID |-> "wal_writes", Name |-> "writes", Algo |-> Incremental] >>]

walFilesChart ==
    [ID |-> "wal_files",
     Title |-> "Write-Ahead Log files",
     Units |-> "files",
     Fam |-> "wal",
     Ctx |-> "postgres.wal_files",
     Priority |-> prioWALFiles,
     Type |-> Stacked,
     Dims |-> <<
        [ID |-> "wal_written_files", Name |-> "written", Algo |-> ""],
        [ID |-> "wal_recycled_files", Name |-> "recycled", Algo |-> ""] >>]

walArchiveFilesChart ==
    [ID |-> "wal_archive_files",
     Title |-> "Write-Ahead Log archive files",
     Units |-> "files/s",
     Fam |-> "wal archive",
     Ctx |-> "postgres.wal_archive_files",
     Priority |-> prioWALArchive,
     Type |-> Stacked,
     Dims |-> <<
        [ID |-> "wal_archive_files_ready_count", Name |-> "ready", Algo |-> Incremental],
        [ID |-> "wal_archive_files_done_count", Name |-> "done", Algo |-> Incremental] >>]

autovacuumWorkersChart ==
    [ID |-> "autovacuum_workers",
     Title |-> "Autovacuum workers",
     Units |-> "workers",
     Fam |-> "autovacuum",
     Ctx |-> "postgres.autovacuum_workers",
     Priority |-> prioAutovacuumWorkers,
     Type |-> "",
     Dims |-> <<
        [ID |-> "autovacuum_analyze", Name |-> "analyze", Algo |-> ""],
        [ID |-> "autovacuum_vacuum_analyze", Name |-> "vacuum_analyze", Algo |-> ""],
        [ID |-> "autovacuum_vacuum", Name |-> "vacuum", Algo |-> ""],
        [ID |-> "autovacuum_vacuum_freeze", Name |-> "vacuum_freeze", Algo |-> ""],
        [ID |-> "autovacuum_brin_summarize", Name |-> "brin_summarize", Algo |-> ""] >>]

percentTowardsEmergencyAutovacuumChart ==
    [ID |-> "percent_towards_emergency_autovacuum",
     Title |-> "Percent towards emergency autovacuum",
     Units |-> "percentage",
     Fam |-> "autovacuum",
     Ctx |-> "postgres.percent_towards_emergency_autovacuum",
     Priority |-> prioAutovacuumPercentTowards,
     Type |-> "",
     Dims |-> <<
        [ID |-> "percent_towards_emergency_autovacuum", Name |-> "emergency_autovacuum", Algo |-> ""] >>]

percentTowardTXIDWraparoundChart ==
    [ID |-> "percent_towards_txid_wraparound",
     Title |-> "Percent towards transaction ID wraparound",
     Units |-> "percentage",
     Fam |-> "txid wraparound",
     Ctx |-> "postgres.percent_towards_txid_wraparound",
     Priority |-> prioTXIDWraparoundPercentTowards,
     Type |-> "",
     Dims |-> <<
        [ID |-> "percent_towards_wraparound", Name |-> "txid_wraparound", Algo |-> ""] >>]

oldestTXIDChart ==
    [ID |-> "oldest_transaction_xid",
     Title |-> "Oldest transaction XID",
     Units |-> "xid",
     Fam |-> "txid wraparound",
     Ctx |-> "postgres.oldest_transaction_xid",
     Priority |-> prioTXIDWraparoundOldestTXID,
     Type |-> "",
     Dims |-> <<
        [ID |-> "oldest_current_xid", Name |-> "xid", Algo |-> ""] >>]

catalogRelationCountChart ==
    [ID |-> "catalog_relation_count",
     Title |-> "Relation count",
     Units |-> "relations",
     Fam |-> "catalog",
     Ctx |-> "postgres.catalog_relation_count",
     Priority |-> prioCatalogRelationCount,
     Type |-> Stacked,
     Dims |-> <<
        [ID |-> "catalog_relkind_r_count", Name |-> "ordinary_table", Algo |-> ""],
        [ID |-> "catalog_relkind_i_count", Name |-> "index", Algo |-> ""],
        [ID |-> "catalog_relkind_S_count", Name |-> "sequence", Algo |-> ""],
        [ID |-> "catalog_relkind_t_count", Name |-> "toast_table", Algo |-> ""],
        [ID |-> "catalog_relkind_v_count", Name |-> "view", Algo |-> ""],
        [ID |-> "catalog_relkind_m_count", Name |-> "materialized_view", Algo |-> ""],
        [ID |-> "catalog_relkind_c_count", Name |-> "composite_type", Algo |-> ""],
        [ID |-> "catalog_relkind_f_count", Name |-> "foreign_table", Algo |-> ""],
        [ID |-> "catalog_relkind_p_count", Name |-> "partitioned_table", Algo |-> ""],
        [ID |-> "catalog_relkind_I_count", Name |-> "partitioned_index", Algo |-> ""] >>]

catalogRelationSizeChart ==
    [ID |-> "catalog_relation_size",
     Title |-> "Relation size",
     Units |-> "B",
     Fam |-> "catalog",
     Ctx |-> "postgres.catalog_relation_size",
     Priority |-> prioCatalogRelationSize,
     Type |-> Stacked,
     Dims |-> <<
        [ID |-> "catalog_relkind_r_size", Name |-> "ordinary_table", Algo |-> ""],
        [ID |-> "catalog_relkind_i_size", Name |-> "index", Algo |-> ""],
        [ID |-> "catalog_relkind_S_size", Name |-> "sequence", Algo |-> ""],
        [ID |-> "catalog_relkind_t_size", Name |-> "toast_table", Algo |-> ""],
        [ID |-> "catalog_relkind_v_size", Name |-> "view", Algo |-> ""],
        [ID |-> "catalog_relkind_m_size", Name |-> "materialized_view", Algo |-> ""],
        [ID |-> "catalog_relkind_c_size", Name |-> "composite_type", Algo |-> ""],
        [ID |-> "catalog_relkind_f_size", Name |-> "foreign_table", Algo |-> ""],
        [ID |-> "catalog_relkind_p_size", Name |-> "partitioned_table", Algo |-> ""],
        [ID |-> "catalog_relkind_I_size", Name |-> "partitioned_index", Algo |-> ""] >>]

serverUptimeChart ==
    [ID |-> "server_uptime",
     Title |-> "Uptime",
     Units |-> "seconds",
     Fam |-> "uptime",
     Ctx |-> "postgres.uptime",
     Priority |-> prioUptime,
     Type |-> "",
     Dims |-> <<
        [ID |-> "server_uptime", Name |-> "uptime", Algo |-> ""] >>]

dbTransactionsChartTmpl ==
    [ID |-> "db_%s_transactions",
     Title |-> "Database transactions",
     Units |-> "transactions/s",
     Fam |-> "db transactions",
     Ctx |-> "postgres.db_transactions",
     Priority |-> prioDBTransactions,
     Type |-> "",
     Dims |-> <<
        [ID |-> "db_%s_xact_commit", Name |-> "committed", Algo |-> Incremental],
        [ID |-> "db_%s_xact_rollback", Name |-> "rollback", Algo |-> Incremental] >>]

dbConnectionsUtilizationChartTmpl ==
    [ID |-> "db_%s_connections_utilization",
     Title |-> "Database connections utilization withing limits",
     Units |-> "percentage",
     Fam |-> "db connections",
     Ctx |-> "postgres.db_connections_utilization",
     Priority |-> prioDBConnectionsUtilization,
     Type |-> "",
     Dims |-> <<
        [ID |-> "db_%s_numbackends_utilization", Name |-> "used", Algo |-> ""] >>]

dbConnectionsChartTmpl ==
    [ID |-> "db_%s_connections",
     Title |-> "Database connections",
     Units |-> "connections",
     Fam |-> "db connections",
     Ctx |-> "postgres.db_connections",
     Priority |-> prioDBConnections,
     Type |-> "",
     Dims |-> <<
        [ID |-> "db_%s_numbackends", Name |-> "connections", Algo |-> ""] >>]

dbBufferCacheChartTmpl ==
    [ID |-> "db_%s_buffer_cache",
     Title |-> "Database buffer cache",
     Units |-> "blocks/s",
     Fam |-> "db buffer cache",
     Ctx |-> "postgres.db_buffer_cache",
     Priority |-> prioDBBufferCache,
     Type |-> Area,
     Dims |-> <<
        [ID |-> "db_%s_blks_hit", Name |-> "hit", Algo |-> Incremental],
        [ID |-> "db_%s_blks_read", Name |-> "miss", Algo |-> Incremental] >>]

dbReadOpsChartTmpl ==
    [ID |-> "db_%s_read_operations",
     Title |-> "Database read operations",
     Units |-> "rows/s",
     Fam |-> "db operations",
     Ctx |-> "postgres.db_read_operations",
     Priority |-> prioDBReadOperations,
     Type |-> "",
     Dims |-> <<
        [ID |-> "db_%s_tup_returned", Name |-> "returned", Algo |-> Incremental],
        [ID |-> "db_%s_tup_fetched", Name |-> "fetched", Algo |-> Incremental] >>]

dbWriteOpsChartTmpl ==
    [ID |-> "db_%s_write_operations",
     Title |-> "Database write operations",
     Units |-> "rows/s",
     Fam |-> "db operations",
     Ctx |-> "postgres.db_write_operations",
     Priority |-> prioDBWriteOperations,
     Type |-> "",
     Dims |-> <<
        [ID |-> "db_%s_tup_inserted", Name |-> "inserted", Algo |-> Incremental],
        [ID |-> "db_%s_tup_deleted", Name |-> "deleted", Algo |-> Incremental],
        [ID |-> "db_%s_tup_updated", Name |-> "updated", Algo |-> Incremental] >>]

dbConflictsChartTmpl ==
    [ID |-> "db_%s_conflicts",
     Title |-> "Database canceled queries",
     Units |-> "queries/s",
     Fam |-> "db operations",
     Ctx |-> "postgres.db_conflicts",
     Priority |-> prioDBConflicts,
     Type |-> "",
     Dims |-> <<
        [ID |-> "db_%s_conflicts", Name |-> "conflicts", Algo |-> Incremental] >>]

dbConflictsStatChartTmpl ==
    [ID |-> "db_%s_conflicts_stat",
     Title |-> "Database canceled queries by reason",
     Units |-> "queries/s",
     Fam |-> "db operations",
     Ctx |-> "postgres.db_conflicts_stat",
     Priority |-> prioDBConflictsStat,
     Type |-> "",
     Dims |-> <<
        [ID |-> "db_%s_confl_tablespace", Name |-> "tablespace", Algo |-> Incremental],
        [ID |-> "db_%s_confl_lock", Name |-> "lock", Algo |-> Incremental],
        [ID |-> "db_%s_confl_snapshot", Name |-> "snapshot", Algo |-> Incremental],
        [ID |-> "db_%s_confl_bufferpin", Name |-> "bufferpin", Algo |-> Incremental],
        [ID |-> "db_%s_confl_deadlock", Name |-> "deadlock", Algo |-> Incremental] >>]

dbDeadlocksChartTmpl ==
    [ID |-> "db_%s_deadlocks",
     Title |-> "Database deadlocks",
     Units |-> "deadlocks/s",
     Fam |-> "db deadlocks",
     Ctx |-> "postgres.db_deadlocks",
     Priority |-> prioDBDeadlocks,
     Type |-> "",
     Dims |-> <<
        [ID |-> "db_%s_deadlocks", Name |-> "deadlocks", Algo |-> Incremental] >>]

dbLocksHeldChartTmpl ==
    [ID |-> "db_%s_locks_held",
     Title |-> "Database locks held",
     Units |-> "locks",
     Fam |-> "db locks",
     Ctx |-> "postgres.db_locks_held",
     Priority |-> prioDBLocksHeld,
     Type |-> Stacked,
     Dims |-> <<
        [ID |-> "db_%s_lock_mode_AccessShareLock_held", Name |-> "access_share", Algo |-> ""],
        [ID |-> "db_%s_lock_mode_RowShareLock_held", Name |-> "row_share", Algo |-> ""],
        [ID |-> "db_%s_lock_mode_RowExclusiveLock_held", Name |-> "row_exclusive", Algo |-> ""],
        [ID |-> "db_%s_lock_mode_ShareUpdateExclusiveLock_held", Name |-> "share_update", Algo |-> ""],
        [ID |-> "db_%s_lock_mode_ShareLock_held", Name |-> "share", Algo |-> ""],
        [ID |-> "db_%s_lock_mode_ShareRowExclusiveLock_held", Name |-> "share_row_exclusive", Algo |-> ""],
        [ID |-> "db_%s_lock_mode_ExclusiveLock_held", Name |-> "exclusive", Algo |-> ""],
        [ID |-> "db_%s_lock_mode_AccessExclusiveLock_held", Name |-> "access_exclusive", Algo |-> ""] >>]

dbLocksAwaitedChartTmpl ==
    [ID |-> "db_%s_locks_awaited",
     Title |-> "Database locks awaited",
     Units |-> "locks",
     Fam |-> "db locks",
     Ctx |-> "postgres.db_locks_awaited",
     Priority |-> prioDBLocksAwaited,
     Type |-> Stacked,
     Dims |-> <<
        [ID |-> "db_%s_lock_mode_AccessShareLock_awaited", Name |-> "access_share", Algo |-> ""],
        [ID |-> "db_%s_lock_mode_RowShareLock_awaited", Name |-> "row_share", Algo |-> ""],
        [ID |-> "db_%s_lock_mode_RowExclusiveLock_awaited", Name |-> "row_exclusive", Algo |-> ""],
        [ID |-> "db_%s_lock_mode_ShareUpdateExclusiveLock_awaited", Name |-> "share_update", Algo |-> ""],
        [ID |-> "db_%s_lock_mode_ShareLock_awaited", Name |-> "share", Algo |-> ""],
        [ID |-> "db_%s_lock_mode_ShareRowExclusiveLock_awaited", Name |-> "share_row_exclusive", Algo |-> ""],
        [ID |-> "db_%s_lock_mode_ExclusiveLock_awaited", Name |-> "exclusive", Algo |-> ""],
        [ID |-> "db_%s_lock_mode_AccessExclusiveLock_awaited", Name |-> "access_exclusive", Algo |-> ""] >>]

dbTempFilesChartTmpl ==
    [ID |-> "db_%s_temp_files",
     Title |-> "Database temporary files written to disk",
     Units |-> "files/s",
     Fam |-> "db temp files",
     Ctx |-> "postgres.db_temp_files",
     Priority |-> prioDBTempFiles,
     Type |-> "",
     Dims |-> <<
        [ID |-> "db_%s_temp_files", Name |-> "written", Algo |-> Incremental] >>]

dbTempFilesDataChartTmpl ==
    [ID |-> "db_%s_temp_files_data",
     Title |-> "Database temporary files data written to disk",
     Units |-> "B/s",
     Fam |-> "db temp files",
     Ctx |-> "postgres.db_temp_files_data",
     Priority |-> prioDBTempFilesData,
     Type |-> "",
     Dims |-> <<
        [ID |-> "db_%s_temp_bytes", Name |-> "written", Algo |-> Incremental] >>]

dbSizeChartTmpl ==
    [ID |-> "db_%s_size",
     Title |-> "Database size",
     Units |-> "B",
     Fam |-> "db size",
     Ctx |-> "postgres.db_size",
     Priority |-> prioDBSize,
     Type |-> "",
     Dims |-> <<
        [ID |-> "db_%s_size", Name |-> "size", Algo |-> ""] >>]

baseCharts ==
    << serverConnectionsUtilizationChart,
       serverConnectionsUsageChart,
       checkpointsChart,
       checkpointWriteChart,
       bgWriterBuffersWrittenChart,
       bgWriterBuffersAllocChart,
       bgWriterMaxWrittenCleanChart,
       bgWriterBuffersBackendFsyncChart,
       walWritesChart,
       walFilesChart,
       walArchiveFilesChart,
       autovacuumWorkersChart,
       percentTowardsEmergencyAutovacuumChart,
       percentTowardTXIDWraparoundChart,
       oldestTXIDChart,
       catalogRelationCountChart,
       catalogRelationSizeChart,
       serverUptimeChart >>

dbChartsTmplDecl ==
    << dbTransactionsChartTmpl,
       dbConnectionsUtilizationChartTmpl,
       dbConnectionsChartTmpl,
       dbBufferCacheChartTmpl,
       dbReadOpsChartTmpl,
       dbWriteOpsChartTmpl,
       dbConflictsChartTmpl,
       dbConflictsStatChartTmpl,
       dbDeadlocksChartTmpl,
       dbLocksHeldChartTmpl,
       dbLocksAwaitedChartTmpl,
       dbTempFilesChartTmpl,
       dbTempFilesDataChartTmpl,
       dbSizeChartTmpl >>

(***************************************************************************)
(* Strings.                                                                *)
(***************************************************************************)

\* strings.HasPrefix(s, prefix)
HasPrefix(s, prefix) ==
    /\ Len(s) >= Len(prefix)
    /\ SubSeq(s, 1, Len(prefix)) = prefix

\* fmt.Sprintf(format, arg) with one string operand, from position i of the
\* format on; used says whether the operand has been consumed.  The text up
\* to the next '%' is copied; then the verb: %s prints the operand, %%
\* prints '%', a '%' ending the format prints NOVERB, any other verb
\* character is a bad verb for a string; a verb without operand prints
\* MISSING, an operand no verb consumed prints EXTRA at the end.  Flags,
\* width and precision are not modelled.
RECURSIVE SprintfFrom(_, _, _, _)
SprintfFrom(format, i, arg, used) ==
    LET pct == {j \in i..Len(format) : SubSeq(format, j, j) = "%"} IN
    IF pct = {}
    THEN SubSeq(format, i, Len(format))
             \o (IF used THEN "" ELSE "%!(EXTRA string=" \o arg \o ")")
    ELSE LET j    == CHOOSE j \in pct : \A k \in pct : j <= k
             lit  == SubSeq(format, i, j - 1)
             verb == SubSeq(format, j + 1, j + 1)
         IN  IF j = Len(format)
             THEN lit \o "%!(NOVERB)" \o SprintfFrom(format, j + 1, arg, used)
             ELSE IF verb = "%"
             THEN lit \o "%" \o SprintfFrom(format, j + 2, arg, used)
             ELSE IF used
             THEN lit \o "%!" \o verb \o "(MISSING)"
                      \o SprintfFrom(format, j + 2, arg, used)
             ELSE IF verb = "s"
             THEN lit \o arg \o SprintfFrom(format, j + 2, arg, TRUE)
             ELSE lit \o "%!" \o verb \o "(string=" \o arg \o ")"
                      \o SprintfFrom(format, j + 2, arg, TRUE)

Sprintf(format, arg) == SprintfFrom(format, 1, arg, FALSE)

\* s = fmt.Sprintf(s, arg), n times over.
RECURSIVE SprintfTimes(_, _, _)
SprintfTimes(s, arg, n) ==
    IF n = 0 THEN s ELSE SprintfTimes(Sprintf(s, arg), arg, n - 1)

(***************************************************************************)
(* Package agent/module: charts as heap objects.                           *)
(***************************************************************************)

EmptyHeap == [charts |-> <<>>, dims |-> <<>>]

\* The fields a chart literal leaves at their zero value.
ZeroFields(c) ==
    c @@ [Labels |-> <<>>, Obsolete |-> FALSE, remove |-> FALSE, created |-> FALSE]

\* The chart at address a as a value: the receiver of a value method.
Deref(h, a) ==
    [h.charts[a] EXCEPT !.Dims = [k \in DOMAIN @ |-> h.dims[@[k]]]]

\* The dimensions of the chart values, one after the other.
RECURSIVE AllDims(_)
AllDims(values) ==
    IF values = <<>> THEN <<>> ELSE Head(values).Dims \o AllDims(Tail(values))

\* Number of dimensions of the first n chart values.
RECURSIVE DimCount(_, _)
DimCount(values, n) ==
    IF n = 0 THEN 0 ELSE DimCount(values, n - 1) + Len(values[n].Dims)

\* Chart.Copy on each of the chart values in turn: for every value a new
\* chart object with its fields and, by Dims.Copy, a new dim object for
\* each of its dimensions.  ret holds the addresses of the new charts.
CopyCharts(h, values) ==
    LET nc == Len(h.charts)
        nd == Len(h.dims)
    IN  [h   |-> [charts |-> h.charts \o
                       [i \in DOMAIN values |->
                           [values[i] EXCEPT !.Dims =
                               [k \in DOMAIN @ |-> nd + DimCount(values, i - 1) + k]]],
                  dims   |-> h.dims \o AllDims(values)],
         ret |-> [i \in DOMAIN values |-> nc + i]]

\* A module.Charts literal {x.Copy(), y.Copy(), ...} over chart values.
ChartsLiteral(h, values) ==
    CopyCharts(h, [i \in DOMAIN values |-> ZeroFields(values[i])])

\* Charts.Copy: a new sequence holding a copy of every chart of cs.
ChartsCopy(h, cs) ==
    CopyCharts(h, [i \in DOMAIN cs |-> Deref(h, cs[i])])

\* Chart.MarkRemove, Chart.MarkNotCreated on a chart object.
MarkRemove(c) == [c EXCEPT !.Obsolete = TRUE, !.remove = TRUE]

MarkNotCreated(c) == [c EXCEPT !.created = FALSE]

\* checkID: an ID is unacceptable when it holds a white-space character.
HasSpace(s) == \E i \in 1..Len(s) : SubSeq(s, i, i) = " "

\* checkChart: what Add requires of a chart before taking it.
CheckChartFails(h, a) ==
    LET c == h.charts[a] IN
    \/ c.ID = "" \/ c.Title = "" \/ c.Units = ""
    \/ HasSpace(c.ID)
    \/ \E k \in DOMAIN c.Dims :
          \/ h.dims[c.Dims[k]].ID = ""
          \/ HasSpace(h.dims[c.Dims[k]].ID)
          \/ \E j \in 1..(k - 1) : h.dims[c.Dims[j]].ID = h.dims[c.Dims[k]].ID

\* Charts.index / Charts.Get: position of the first chart with the ID, 0 if none.
ChartsIndex(h, cs, id) ==
    LET at == {i \in DOMAIN cs : h.charts[cs[i]].ID = id} IN
    IF at = {} THEN 0 ELSE CHOOSE i \in at : \A j \in at : i <= j

\* Whether Add refuses the chart at address a, the collection being cs: the
\* chart is invalid, or the first chart of cs with its ID is not flagged
\* for removal.
AddRefuses(h, cs, a) ==
    \/ CheckChartFails(h, a)
    \/ LET idx == ChartsIndex(h, cs, h.charts[a].ID)
       IN  idx # 0 /\ ~h.charts[cs[idx]].remove

\* Charts.Add(new...): takes the charts one by one, appending each to the
\* collection, and returns an error at the first chart it refuses, leaving
\* the charts taken before it in the collection.
ChartsAdd(h, cs, new) ==
    LET refused == {i \in DOMAIN new :
                       AddRefuses(h, cs \o SubSeq(new, 1, i - 1), new[i])}
    IN  IF refused = {}
        THEN [charts |-> cs \o new, err |-> FALSE]
        ELSE LET k == CHOOSE i \in refused : \A j \in refused : i <= j
             IN  [charts |-> cs \o SubSeq(new, 1, k - 1), err |-> TRUE]

\* The subsequence of cs at the positions in keep, in their order.
AtPositions(cs, keep) ==
    [k \in 1..Cardinality(keep) |->
        cs[CHOOSE i \in keep : Cardinality({j \in keep : j <= i}) = k]]

\* Charts.Remove(id), called once for every chart of cs flagged for removal
\* with that chart's ID: each call drops the first chart with the ID, so a
\* chart stays when at least as many charts with its ID precede it as
\* there are flagged charts with its ID.
ChartsRemoveFlagged(h, cs) ==
    LET id(i)      == h.charts[cs[i]].ID
        flagged(i) == Cardinality({j \in DOMAIN cs :
                          id(j) = id(i) /\ h.charts[cs[j]].remove})
        before(i)  == Cardinality({j \in 1..(i - 1) : id(j) = id(i)})
    IN  AtPositions(cs, {i \in DOMAIN cs : before(i) >= flagged(i)})

\* One pass of the job over its charts after a collection: every chart not
\* yet created is sent to the agent and becomes created; the charts flagged
\* for removal are then dropped from the collection.
processMetrics(h, cs) ==
    LET inCs == {cs[i] : i \in DOMAIN cs} IN
    [h      |-> [h EXCEPT !.charts =
                    [a \in DOMAIN @ |->
                        IF a \in inCs THEN [@[a] EXCEPT !.created = TRUE] ELSE @[a]]],
     charts |-> ChartsRemoveFlagged(h, cs)]

(***************************************************************************)
(* modules/postgres/charts.go                                              *)
(***************************************************************************)

\* The loop of newDatabaseCharts over the charts cs.  An iteration changes
\* the ID and the labels of its chart and the IDs of the dim objects of its
\* chart and nothing else, so the loop formats the ID of an object once for
\* every time the loop comes to it.
SetIDs(h, cs, dbname) ==
    LET chartTimes(a) == Cardinality({i \in DOMAIN cs : cs[i] = a})
        places        == UNION {{<<i, k>> : k \in DOMAIN h.charts[cs[i]].Dims} :
                                   i \in DOMAIN cs}
        dimTimes(d)   == Cardinality({p \in places :
                             h.charts[cs[p[1]]].Dims[p[2]] = d})
        inCs     == {cs[i] : i \in DOMAIN cs}
        dimsOfCs == UNION {{h.charts[a].Dims[k] : k \in DOMAIN h.charts[a].Dims} :
                             a \in inCs}
    IN  [charts |->
            [a \in DOMAIN h.charts |->
                IF a \in inCs
                THEN [h.charts[a] EXCEPT
                        !.ID = SprintfTimes(@, dbname, chartTimes(a)),
                        !.Labels = <<[Key |-> "database", Value |-> dbname]>>]
                ELSE h.charts[a]],
         dims |->
            [d \in DOMAIN h.dims |->
                IF d \in dimsOfCs
                THEN [h.dims[d] EXCEPT !.ID = SprintfTimes(@, dbname, dimTimes(d))]
                ELSE h.dims[d]]]

\* The loop left without formatting the dimension IDs (the dimensions
\* taken by value).
newDatabaseChartsDimsByValue(h, dbname) ==
    LET cp == ChartsCopy(h, dbChartsTmpl)
    IN  [h |-> [SetIDs(cp.h, cp.ret, dbname) EXCEPT !.dims = cp.h.dims],
         ret |-> cp.ret]

\* The loop left without the assignment to c.ID.
newDatabaseChartsNoChartID(h, dbname) ==
    LET cp == ChartsCopy(h, dbChartsTmpl)
    IN  [h |-> [SetIDs(cp.h, cp.ret, dbname) EXCEPT !.charts =
                   [a \in DOMAIN @ |-> [@[a] EXCEPT !.ID = cp.h.charts[a].ID]]],
         ret |-> cp.ret]

\* The loop run over dbChartsTmpl itself, without Copy.
newDatabaseChartsNoCopy(h, dbname) ==
    [h |-> SetIDs(h, dbChartsTmpl, dbname), ret |-> dbChartsTmpl]

newDatabaseCharts(h, dbname) ==
    LET cp == ChartsCopy(h, dbChartsTmpl)
    IN  [h |-> SetIDs(cp.h, cp.ret, dbname), ret |-> cp.ret]

\* The loop of removeDatabaseCharts over the collection cs: the charts whose
\* ID has the prefix are marked, the others are left as they are.
MarkWithPrefix(h, cs, prefix) ==
    LET inCs == {cs[i] : i \in DOMAIN cs} IN
    [h EXCEPT !.charts =
        [a \in DOMAIN @ |->
            IF a \in inCs /\ HasPrefix(@[a].ID, prefix)
            THEN MarkNotCreated(MarkRemove(@[a]))
            ELSE @[a]]]

\* removeDatabaseCharts without the call of MarkNotCreated.
removeDatabaseChartsNoNotCreated(h, cs, dbname) ==
    LET prefix == Sprintf("db_%s_", dbname)
        inCs   == {cs[i] : i \in DOMAIN cs}
    IN  [h      |-> [h EXCEPT !.charts =
                       [a \in DOMAIN @ |->
                           IF a \in inCs /\ HasPrefix(@[a].ID, prefix)
                           THEN MarkRemove(@[a])
                           ELSE @[a]]],
         charts |-> cs]

\* removeDatabaseCharts with the prefix "db_%s", without the closing underscore.
removeDatabaseChartsNoUnderscore(h, cs, dbname) ==
    [h |-> MarkWithPrefix(h, cs, Sprintf("db_%s", dbname)), charts |-> cs]

\* removeDatabaseCharts with the test of the prefix negated.
removeDatabaseChartsInverted(h, cs, dbname) ==
    LET prefix == Sprintf("db_%s_", dbname)
        inCs   == {cs[i] : i \in DOMAIN cs}
    IN  [h      |-> [h EXCEPT !.charts =
                       [a \in DOMAIN @ |->
                           IF a \in inCs /\ ~HasPrefix(@[a].ID, prefix)
                           THEN MarkNotCreated(MarkRemove(@[a]))
                           ELSE @[a]]],
         charts |-> cs]

\* removeDatabaseCharts dropping the matching charts from the collection
\* instead of marking them.
removeDatabaseChartsDeleting(h, cs, dbname) ==
    LET prefix == Sprintf("db_%s_", dbname) IN
    [h      |-> h,
     charts |-> AtPositions(cs, {i \in DOMAIN cs :
                                    ~HasPrefix(h.charts[cs[i]].ID, prefix)})]

\* p.Charts() is a pointer to the collection: the function returns the heap
\* and the collection as it leaves them.
removeDatabaseCharts(h, cs, dbname) ==
    [h |-> MarkWithPrefix(h, cs, Sprintf("db_%s_", dbname)), charts |-> cs]

\* addNewDatabaseCharts retiring the charts of the database when Add fails.
addNewDatabaseChartsCleanup(h, cs, dbname) ==
    LET new == newDatabaseCharts(h, dbname)
        add == ChartsAdd(new.h, cs, new.ret)
    IN  [h      |-> IF add.err
                    THEN removeDatabaseCharts(new.h, add.charts, dbname).h
                    ELSE new.h,
         charts |-> add.charts, ret |-> new.ret, warned |-> add.err]

addNewDatabaseCharts(h, cs, dbname) ==
    LET new == newDatabaseCharts(h, dbname)
        add == ChartsAdd(new.h, cs, new.ret)
    IN  [h |-> new.h, charts |-> add.charts, ret |-> new.ret, warned |-> add.err]

(***************************************************************************)
(* The state machine.                                                      *)
(***************************************************************************)

\* After package initialisation and construction of the collector:
\* dbChartsTmpl holds its copies of the templates, the job's collection is
\* baseCharts.Copy().
Init ==
    LET tmpl == ChartsLiteral(EmptyHeap, dbChartsTmplDecl)
        base == ChartsLiteral(tmpl.h, baseCharts)
    IN  /\ heap = base.h
        /\ dbChartsTmpl = tmpl.ret
        /\ charts = base.ret
        /\ call = [op |-> "init", dbname |-> ""]
        /\ ret = <<>>
        /\ warnings = 0
        /\ calls = 0

NewDatabaseCharts(dbname) ==
    /\ calls < MaxCalls
    /\ \E r \in {newDatabaseCharts(heap, dbname)} :
         /\ heap' = r.h
         /\ ret' = r.ret
    /\ call' = [op |-> "new", dbname |-> dbname]
    /\ calls' = calls + 1
    /\ UNCHANGED <<dbChartsTmpl, charts, warnings>>

AddNewDatabaseCharts(dbname) ==
    /\ calls < MaxCalls
    /\ \E r \in {addNewDatabaseCharts(heap, charts, dbname)} :
         /\ heap' = r.h
         /\ charts' = r.charts
         /\ ret' = r.ret
         /\ warnings' = IF r.warned THEN warnings + 1 ELSE warnings
    /\ call' = [op |-> "add", dbname |-> dbname]
    /\ calls' = calls + 1
    /\ UNCHANGED dbChartsTmpl

RemoveDatabaseCharts(dbname) ==
    /\ \E r \in {removeDatabaseCharts(heap, charts, dbname)} :
         /\ heap' = r.h
         /\ charts' = r.charts
    /\ call' = [op |-> "remove", dbname |-> dbname]
    /\ ret' = <<>>
    /\ UNCHANGED <<dbChartsTmpl, warnings, calls>>

ProcessMetrics ==
    /\ \E r \in {processMetrics(heap, charts)} :
         /\ heap' = r.h
         /\ charts' = r.charts
    /\ call' = [op |-> "process", dbname |-> ""]
    /\ ret' = <<>>
    /\ UNCHANGED <<dbChartsTmpl, warnings, calls>>

\* The collector calls addNewDatabaseCharts for a database it sees for the
\* first time and removeDatabaseCharts for one it sees no more; the job then
\* processes the charts.
Next ==
    \/ \E dbname \in DbNames : AddNewDatabaseCharts(dbname)
    \/ \E dbname \in DbNames : RemoveDatabaseCharts(dbname)
    \/ ProcessMetrics

Spec == Init /\ [][Next]_vars

\* newDatabaseCharts alone, called with names that hold a format verb, a
\* '%', a space, underscores, or words of the template IDs.
NextNames == \E dbname \in VerbNames : NewDatabaseCharts(dbname)

SpecNames == Init /\ [][NextNames]_vars

(***************************************************************************)
(* Vocabulary of the properties.                                           *)
(***************************************************************************)

\* The label newDatabaseCharts attaches for the database d.
DatabaseLabel(d) == <<[Key |-> "database", Value |-> d]>>

\* The chart at address a was made by newDatabaseCharts(d).
CreatedFor(a, d) == heap.charts[a].Labels = DatabaseLabel(d)

\* s starts with "db_" d "_", compared character by character.
CarriesPrefix(s, d) ==
    LET p == "db_" \o d \o "_" IN
    /\ Len(s) >= Len(p)
    /\ \A i \in 1..Len(p) : SubSeq(s, i, i) = SubSeq(p, i, i)

\* The template ID t, "db_%s_...", with d in the place of its "%s".
Instantiate(t, d) == SubSeq(t, 1, 3) \o d \o SubSeq(t, 6, Len(t))

\* The chart value c is the template t instantiated for the database d.
IsInstance(c, t, d) ==
    /\ SubSeq(t.ID, 1, 6) = "db_%s_"
    /\ c.ID = Instantiate(t.ID, d)
    /\ CarriesPrefix(c.ID, d)
    /\ c.Labels = DatabaseLabel(d)
    /\ c.Title = t.Title /\ c.Units = t.Units /\ c.Fam = t.Fam /\ c.Ctx = t.Ctx
    /\ c.Priority = t.Priority /\ c.Type = t.Type
    /\ Len(c.Dims) = Len(t.Dims)
    /\ \A k \in DOMAIN t.Dims :
          /\ c.Dims[k].ID = Instantiate(t.Dims[k].ID, d)
          /\ CarriesPrefix(c.Dims[k].ID, d)
          /\ c.Dims[k].Name = t.Dims[k].Name
          /\ c.Dims[k].Algo = t.Dims[k].Algo

\* Addresses of the job's copies of baseCharts, made right after the
\* templates at construction.
BaseAddrs ==
    (Len(dbChartsTmplDecl) + 1)..(Len(dbChartsTmplDecl) + Len(baseCharts))

\* Addresses of the charts newDatabaseCharts has made so far.
GeneratedAddrs ==
    {a \in DOMAIN heap.charts : heap.charts[a].Labels # <<>>}

\* The dim addresses of the chart object c.
DimAddrs(c) == {c.Dims[k] : k \in DOMAIN c.Dims}

\* The last step was a call of newDatabaseCharts, alone or by addNewDatabaseCharts.
Returned == call.op \in {"new", "add"}

(***************************************************************************)
(* Properties.                                                             *)
(***************************************************************************)

\* C1: after removeDatabaseCharts(d), every chart of the collection that
\* newDatabaseCharts(d) made is flagged for removal and flagged as not
\* created; none of them is left unflagged.
RetirementComplete ==
    call.op = "remove" =>
        \A i \in DOMAIN charts :
            CreatedFor(charts[i], call.dbname) =>
                /\ heap.charts[charts[i]].remove
                /\ ~heap.charts[charts[i]].created

\* A removeDatabaseCharts(d) has just run on a collection holding the whole
\* chart set of d, one chart per template.
RetirementCompleteWitness ==
    /\ call.op = "remove"
    /\ call.dbname = "a"
    /\ Cardinality({i \in DOMAIN charts : CreatedFor(charts[i], "a")})
           = Len(dbChartsTmplDecl)
    /\ \A i \in DOMAIN charts :
           CreatedFor(charts[i], "a") => heap.charts[charts[i]].remove

\* C2: removeDatabaseCharts(d) leaves the removal flag and the created flag
\* of every chart whose ID does not start with "db_" d "_" as they were.
RemovalFrame ==
    [][call'.op = "remove" =>
          \A a \in DOMAIN heap.charts :
              ~CarriesPrefix(heap.charts[a].ID, call'.dbname) =>
                  /\ heap'.charts[a].remove = heap.charts[a].remove
                  /\ heap'.charts[a].created = heap.charts[a].created]_vars

\* A removeDatabaseCharts("a_temp") has flagged charts while the collection
\* holds created, unflagged charts of "a" that do not carry its prefix.
RemovalFrameWitness ==
    /\ call.op = "remove"
    /\ call.dbname = "a_temp"
    /\ \E i \in DOMAIN charts : heap.charts[charts[i]].remove
    /\ \E i \in DOMAIN charts :
           /\ CreatedFor(charts[i], "a")
           /\ ~CarriesPrefix(heap.charts[charts[i]].ID, "a_temp")
           /\ heap.charts[charts[i]].created
           /\ ~heap.charts[charts[i]].remove

\* C3: newDatabaseCharts(d) returns one chart per entry of dbChartsTmpl, in
\* the same order, each with the template's chart ID and dimension IDs with
\* d in the place of "%s", the single label database=d, and the template's
\* title, units, family, context, priority, type and dimension names and
\* algorithms.
NewChartsAreInstances ==
    Returned =>
        /\ Len(ret) = Len(dbChartsTmplDecl)
        /\ \A i \in DOMAIN ret :
               IsInstance(Deref(heap, ret[i]), dbChartsTmplDecl[i], call.dbname)

\* newDatabaseCharts has returned the chart set of the name "%s", after
\* that of the name "100%".
NewChartsAreInstancesWitness ==
    /\ call = [op |-> "new", dbname |-> "%s"]
    /\ Len(ret) = Len(dbChartsTmplDecl)
    /\ heap.charts[ret[1]].ID = "db_%s_transactions"
    /\ \E a \in GeneratedAddrs : heap.charts[a].ID = "db_100%_transactions"

\* C4: chart IDs are unique: the base chart IDs are pairwise distinct, the
\* chart IDs one newDatabaseCharts call returns are pairwise distinct,
\* charts made for different database names never share an ID, and no
\* chart made for a database has the ID of a base chart.
ChartIDsUnique ==
    /\ \A a, b \in BaseAddrs :
           a # b => heap.charts[a].ID # heap.charts[b].ID
    /\ Returned =>
           \A i, j \in DOMAIN ret :
               i # j => heap.charts[ret[i]].ID # heap.charts[ret[j]].ID
    /\ \A a, b \in GeneratedAddrs :
           heap.charts[a].Labels # heap.charts[b].Labels =>
               heap.charts[a].ID # heap.charts[b].ID
    /\ \A a \in GeneratedAddrs : \A b \in BaseAddrs :
           heap.charts[a].ID # heap.charts[b].ID

\* Chart sets of two different database names, one name extending the
\* other by the first words of a template suffix, have been made.
ChartIDsUniqueWitness ==
    /\ Returned
    /\ \E a, b \in GeneratedAddrs :
           /\ CreatedFor(a, "a_temp")
           /\ CreatedFor(b, "a_temp_files")

\* C5: the charts of dbChartsTmpl keep their "db_%s_..." chart and dimension
\* IDs, have no labels and no flags, whatever calls are made; the charts a
\* call of newDatabaseCharts returns are new objects, named for its database
\* and not flagged for removal, and share no dimension object with any
\* other chart.
TemplatesIntact ==
    /\ \A i \in DOMAIN dbChartsTmpl :
           Deref(heap, dbChartsTmpl[i]) = ZeroFields(dbChartsTmplDecl[i])
    /\ Returned =>
           /\ \A i \in DOMAIN ret :
                  /\ \A j \in DOMAIN dbChartsTmpl : ret[i] # dbChartsTmpl[j]
                  /\ \A j \in DOMAIN ret : i # j => ret[i] # ret[j]
                  /\ heap.charts[ret[i]].ID =
                         Instantiate(dbChartsTmplDecl[i].ID, call.dbname)
                  /\ ~heap.charts[ret[i]].remove
                  /\ ~heap.charts[ret[i]].Obsolete
    /\ Returned =>
           \A i \in DOMAIN ret : \A a \in DOMAIN heap.charts :
               a # ret[i] =>
                   DimAddrs(heap.charts[ret[i]]) \cap DimAddrs(heap.charts[a]) = {}

\* newDatabaseCharts("a") has returned while the collection holds charts of
\* "a" from an earlier call that removeDatabaseCharts has flagged.
TemplatesIntactWitness ==
    /\ Returned
    /\ call.dbname = "a"
    /\ \E i \in DOMAIN charts :
           /\ CreatedFor(charts[i], "a")
           /\ heap.charts[charts[i]].remove
           /\ \A j \in DOMAIN ret : ret[j] # charts[i]

\* C6: addNewDatabaseCharts(d), the collection holding no chart of d: when
\* Add reports no error (no warning is emitted) the collection is its
\* previous charts, unchanged and in their order, followed by the charts of
\* newDatabaseCharts(d), one per template; when Add reports an error one
\* warning is emitted and no chart's removal flag is set.
AddRegistersAll ==
    [][(call'.op = "add" /\ calls' = calls + 1) =>
          /\ (/\ warnings' = warnings
              /\ \A i \in DOMAIN charts : ~CreatedFor(charts[i], call'.dbname))
             => /\ charts' = charts \o ret'
                /\ Len(ret') = Len(dbChartsTmplDecl)
                /\ \A i \in DOMAIN ret' :
                       /\ ret'[i] \notin DOMAIN heap.charts
                       /\ heap'.charts[ret'[i]].Labels = DatabaseLabel(call'.dbname)
                       /\ heap'.charts[ret'[i]].Ctx = dbChartsTmplDecl[i].Ctx
                /\ \A i \in DOMAIN charts :
                       Deref(heap', charts[i]) = Deref(heap, charts[i])
          /\ warnings' # warnings =>
                /\ warnings' = warnings + 1
                /\ \A a \in DOMAIN heap.charts :
                       heap'.charts[a].remove = heap.charts[a].remove
                /\ \A a \in DOMAIN heap'.charts :
                       a \notin DOMAIN heap.charts => ~heap'.charts[a].remove]_vars

\* Both cases have happened: a first addNewDatabaseCharts("a") registered
\* the chart set behind the base charts, a second one ended with a warning.
AddRegistersAllWitness ==
    /\ call = [op |-> "add", dbname |-> "a"]
    /\ warnings = 1
    /\ Len(charts) = Len(baseCharts) + Len(dbChartsTmplDecl)
    /\ \A i \in DOMAIN charts :
           i > Len(baseCharts) => CreatedFor(charts[i], "a")

\* C7: removeDatabaseCharts(d1) flags no chart of the collection that was
\* made for another database d2.
RemovalIsolated ==
    [][call'.op = "remove" =>
          \A i \in DOMAIN charts :
              (/\ heap.charts[charts[i]].Labels # <<>>
               /\ ~CreatedFor(charts[i], call'.dbname))
              => /\ heap'.charts[charts[i]].remove = heap.charts[charts[i]].remove
                 /\ heap'.charts[charts[i]].created
                        = heap.charts[charts[i]].created]_vars

\* C8: no call retires a server-wide chart: the job's copies of baseCharts
\* stay in the collection, are never flagged for removal, and once created
\* are never flagged as not created.
BaseChartsKept ==
    [][\A a \in BaseAddrs :
          /\ \E i \in DOMAIN charts' : charts'[i] = a
          /\ ~heap'.charts[a].remove
          /\ ~heap'.charts[a].Obsolete
          /\ heap.charts[a].created => heap'.charts[a].created]_vars

\* removeDatabaseCharts with the empty name has flagged charts while the
\* base charts are created.
BaseChartsKeptWitness ==
    /\ call = [op |-> "remove", dbname |-> ""]
    /\ \E i \in DOMAIN charts : heap.charts[charts[i]].remove
    /\ \A a \in BaseAddrs : heap.charts[a].created

\* C9: removeDatabaseCharts only sets flags: it leaves the collection, the
\* set of objects, and every chart's fields other than the flags as they
\* were; a second call in a row for the same database changes nothing; a
\* call for a database no chart of the collection carries the prefix of
\* changes nothing.
RemovalOnlyFlags ==
    [][call'.op = "remove" =>
          /\ charts' = charts
          /\ heap'.dims = heap.dims
          /\ DOMAIN heap'.charts = DOMAIN heap.charts
          /\ \A a \in DOMAIN heap.charts :
                 [heap'.charts[a] EXCEPT !.remove = FALSE, !.created = FALSE,
                                         !.Obsolete = FALSE]
                 = [heap.charts[a] EXCEPT !.remove = FALSE, !.created = FALSE,
                                          !.Obsolete = FALSE]
          /\ call = call' => heap' = heap
          /\ (\A i \in DOMAIN charts :
                  ~CarriesPrefix(heap.charts[charts[i]].ID, call'.dbname))
             => heap' = heap]_vars

\* removeDatabaseCharts("a") has run on a collection holding charts of "a";
\* from this state a second call for "a" is a step of its own.
RemovalOnlyFlagsWitness ==
    /\ call = [op |-> "remove", dbname |-> "a"]
    /\ \E i \in DOMAIN charts :
           /\ CreatedFor(charts[i], "a")
           /\ heap.charts[charts[i]].remove

====
